---------------------------- MODULE Spec2Model ----------------------------
(***************************************************************************)
(* Tiny Ray Caster (Tiny_RR_005.ino): the movement controller, the ray     *)
(* caster and the frame loop.                                              *)
(*                                                                         *)
(* Numbers.  A float of the sketch is an integer count of 1/One map units, *)
(* rounded after every arithmetic operation to MantBits significant bits   *)
(* (round to nearest, ties to even), which is what IEEE single precision   *)
(* does with 24 bits.  An angle is an integer count of 45/64 degree, the   *)
(* value of theta_inc: every bearing and view angle the sketch forms is a  *)
(* multiple of it, and a sum of angles is rounded like any other float.    *)
(* sin and cos are read from a table of the 512 angles of the circle.      *)
(***************************************************************************)
EXTENDS Integers, Sequences, FiniteSets, TLC

\* ------------------------------------------------------------------ bounds
\* significant bits of a float of the model
MantBits == 14
\* movement calls made in one behaviour of SpecCalls
MaxCalls == 5
\* controls found pressed in one behaviour of Spec
MaxPresses == 3
\* loop iterations in one behaviour of Spec
MaxFrames == 2
\* movement calls made in one behaviour of SpecWalk
MaxWalk == 3
\* controls found pressed in one behaviour of SpecLive
MaxLivePresses == 1
\* loop iterations in one behaviour of SpecLive
MaxLiveFrames == 1

\* --------------------------------------------------------- program constants
SCREEN_WIDTH == 128
SCREEN_HEIGHT == 64
MAP_X_DIM == 10
MAP_Y_DIM == 10
screen_width == SCREEN_WIDTH
screen_height == SCREEN_HEIGHT
NUM_SLIVERS == screen_width

\* 1.0 in fixed units
One == 4096
\* 360 degrees in angle units of 45/64 degree
FullTurn == 512
\* 90 degrees
Deg90 == 128
\* const float FOV = 90.0
FOV == 128
\* a scan that takes every second sample only
HeightDec_wide == 2 + 2
\* a scan that steps the wall height by three
HeightDec_three == 2 + 1
\* height decrement of the scan loop, wall_height -= 2
HeightDec == 2
\* float k = 1
k == 1
\* player_walk_speed = 0.1
player_walk_speed == 410
\* player_turn_speed = 16.0 * theta_inc
player_turn_speed == 16
\* density of setup's randomize_map(17)
SetupDensity == 17

Min(a, b) == IF a <= b THEN a ELSE b

Max(a, b) == IF a >= b THEN a ELSE b

Abs(a) == IF a >= 0 THEN a ELSE 0 - a

\* ------------------------------------------------------------- float model
RECURSIVE Ulp(_)
\* the spacing of the floats around a >= 0: 1 below 2^MantBits, doubling
\* with every further binary digit
Ulp(a) == IF a < 2^MantBits THEN 1 ELSE 2 * Ulp(a \div 2)

\* a >= 0 rounded to a multiple of u, ties to the even multiple
RoundEven(a, u) ==
  LET q == a \div u
      rem == a % u
  IN  IF 2 * rem < u THEN q * u
      ELSE IF 2 * rem > u THEN (q + 1) * u
      ELSE IF q % 2 = 0 THEN q * u ELSE (q + 1) * u

\* the float nearest to v (v and the spacing of the floats around it are
\* bound through a singleton set so that each is computed once)
Fl(v) ==
  CHOOSE f \in { IF a >= 0 THEN RoundEven(a, u) ELSE 0 - RoundEven(0 - a, u) :
                   <<a, u>> \in { <<a0, Ulp(Abs(a0))>> : a0 \in {v} } } : TRUE

\* n / d rounded to the nearest integer, d > 0
RoundDiv(n, d) == IF n >= 0 THEN RoundEven(n, d) \div d ELSE 0 - (RoundEven(0 - n, d) \div d)

FAdd(a, b) == Fl(a + b)
\* a float times a sine or cosine (scaled by One)
FMulTrig(a, t) == Fl(RoundDiv(a * t, One))
\* the quotient of two integer-valued floats
FDivInt(n, d) == Fl(RoundDiv(n * One, d))
\* (int) of a float: truncation toward zero
Trunc(v) == IF v >= 0 THEN v \div One ELSE 0 - ((0 - v) \div One)

\* sin of the 512 angles i * 45/64 degree, scaled by One
SinTable ==
  <<
     0, 50, 101, 151, 201, 251, 301, 351, 401, 451, 501, 551, 601, 651, 700, 750,
     799, 848, 897, 946, 995, 1044, 1092, 1141, 1189, 1237, 1285, 1332, 1380, 1427, 1474, 1521,
     1567, 1614, 1660, 1706, 1751, 1797, 1842, 1886, 1931, 1975, 2019, 2062, 2106, 2149, 2191, 2234,
     2276, 2317, 2359, 2399, 2440, 2480, 2520, 2559, 2598, 2637, 2675, 2713, 2751, 2788, 2824, 2861,
     2896, 2932, 2967, 3001, 3035, 3068, 3102, 3134, 3166, 3198, 3229, 3260, 3290, 3320, 3349, 3378,
     3406, 3433, 3461, 3487, 3513, 3539, 3564, 3588, 3612, 3636, 3659, 3681, 3703, 3724, 3745, 3765,
     3784, 3803, 3822, 3839, 3857, 3873, 3889, 3905, 3920, 3934, 3948, 3961, 3973, 3985, 3996, 4007,
     4017, 4027, 4036, 4044, 4052, 4059, 4065, 4071, 4076, 4081, 4085, 4088, 4091, 4093, 4095, 4096,
     4096, 4096, 4095, 4093, 4091, 4088, 4085, 4081, 4076, 4071, 4065, 4059, 4052, 4044, 4036, 4027,
     4017, 4007, 3996, 3985, 3973, 3961, 3948, 3934, 3920, 3905, 3889, 3873, 3857, 3839, 3822, 3803,
     3784, 3765, 3745, 3724, 3703, 3681, 3659, 3636, 3612, 3588, 3564, 3539, 3513, 3487, 3461, 3433,
     3406, 3378, 3349, 3320, 3290, 3260, 3229, 3198, 3166, 3134, 3102, 3068, 3035, 3001, 2967, 2932,
     2896, 2861, 2824, 2788, 2751, 2713, 2675, 2637, 2598, 2559, 2520, 2480, 2440, 2399, 2359, 2317,
     2276, 2234, 2191, 2149, 2106, 2062, 2019, 1975, 1931, 1886, 1842, 1797, 1751, 1706, 1660, 1614,
     1567, 1521, 1474, 1427, 1380, 1332, 1285, 1237, 1189, 1141, 1092, 1044, 995, 946, 897, 848,
     799, 750, 700, 651, 601, 551, 501, 451, 401, 351, 301, 251, 201, 151, 101, 50,
     0, -50, -101, -151, -201, -251, -301, -351, -401, -451, -501, -551, -601, -651, -700, -750,
     -799, -848, -897, -946, -995, -1044, -1092, -1141, -1189, -1237, -1285, -1332, -1380, -1427, -1474, -1521,
     -1567, -1614, -1660, -1706, -1751, -1797, -1842, -1886, -1931, -1975, -2019, -2062, -2106, -2149, -2191, -2234,
     -2276, -2317, -2359, -2399, -2440, -2480, -2520, -2559, -2598, -2637, -2675, -2713, -2751, -2788, -2824, -2861,
     -2896, -2932, -2967, -3001, -3035, -3068, -3102, -3134, -3166, -3198, -3229, -3260, -3290, -3320, -3349, -3378,
     -3406, -3433, -3461, -3487, -3513, -3539, -3564, -3588, -3612, -3636, -3659, -3681, -3703, -3724, -3745, -3765,
     -3784, -3803, -3822, -3839, -3857, -3873, -3889, -3905, -3920, -3934, -3948, -3961, -3973, -3985, -3996, -4007,
     -4017, -4027, -4036, -4044, -4052, -4059, -4065, -4071, -4076, -4081, -4085, -4088, -4091, -4093, -4095, -4096,
     -4096, -4096, -4095, -4093, -4091, -4088, -4085, -4081, -4076, -4071, -4065, -4059, -4052, -4044, -4036, -4027,
     -4017, -4007, -3996, -3985, -3973, -3961, -3948, -3934, -3920, -3905, -3889, -3873, -3857, -3839, -3822, -3803,
     -3784, -3765, -3745, -3724, -3703, -3681, -3659, -3636, -3612, -3588, -3564, -3539, -3513, -3487, -3461, -3433,
     -3406, -3378, -3349, -3320, -3290, -3260, -3229, -3198, -3166, -3134, -3102, -3068, -3035, -3001, -2967, -2932,
     -2896, -2861, -2824, -2788, -2751, -2713, -2675, -2637, -2598, -2559, -2520, -2480, -2440, -2399, -2359, -2317,
     -2276, -2234, -2191, -2149, -2106, -2062, -2019, -1975, -1931, -1886, -1842, -1797, -1751, -1706, -1660, -1614,
     -1567, -1521, -1474, -1427, -1380, -1332, -1285, -1237, -1189, -1141, -1092, -1044, -995, -946, -897, -848,
     -799, -750, -700, -651, -601, -551, -501, -451, -401, -351, -301, -251, -201, -151, -101, -50
  >>

Sin(theta) == SinTable[(theta % FullTurn) + 1]
Cos(theta) == SinTable[((theta + Deg90) % FullTurn) + 1]

\* ------------------------------------------------------------------ the map
Cells == (0 .. MAP_X_DIM - 1) \X (0 .. MAP_Y_DIM - 1)

\* clear_map(): every cell 0
clear_map == [c \in Cells |-> 0]

\* the wall sets the model lets random(100) < density produce when
\* 0 < density < 100 (every subset of Cells has positive probability)
WallSets ==
  { {},
    {<<5, 4>>},
    {<<5, 2>>, <<4, 5>>},
    Cells }

\* the outcomes of the random draws of randomize_map(density): random(100)
\* is in 0..99, so no cell is a wall for density <= 0 and every cell is for
\* density >= 100
WallChoices(density) ==
  IF density <= 0 THEN {{}}
  ELSE IF density >= 100 THEN {Cells}
  ELSE WallSets

\* randomize_map(density) with the draws that make exactly walls occupied,
\* then my_map[(int)player_x][(int)player_y] = 0
randomize_map(walls, px, py) ==
  [c \in Cells |-> IF c = <<Trunc(px), Trunc(py)>> THEN 0
                   ELSE IF c \in walls THEN 1 ELSE 0]

\* is <<ix, iy>> a valid index pair of char my_map[MAP_X_DIM][MAP_Y_DIM]
InRange(ix, iy) == ix \in 0 .. MAP_X_DIM - 1 /\ iy \in 0 .. MAP_Y_DIM - 1

\* the value my_map[ix][iy] yields; outside the array the read is undefined
\* behaviour and yields whatever lies there, ub
ReadMap(m, ix, iy, ub) == IF InRange(ix, iy) THEN m[<<ix, iy>>] ELSE ub

\* the values an out-of-range read can yield that the tests tell apart
UBValues == {0, 1}

\* --------------------------------------------------- the movement controller
\* player_x = MAP_X_DIM / 2.0 + 0.5, player_y = MAP_Y_DIM / 2.0 + 0.5,
\* player_bearing = 270
InitPose ==
  [x |-> (MAP_X_DIM * One) \div 2 + One \div 2,
   y |-> (MAP_Y_DIM * One) \div 2 + One \div 2,
   bearing |-> 3 * Deg90]

\* the candidate position of step_forward(distance) from pose p
Candidate(p, distance) ==
  LET delta_x == FMulTrig(distance, Cos(p.bearing))
      delta_y == FMulTrig(distance, Sin(p.bearing))
  IN  [x |-> FAdd(p.x, delta_x), y |-> FAdd(p.y, delta_y)]

\* step_forward without the test of the map cell
step_forward_nocell(p, m, distance, ub) ==
  LET new == Candidate(p, distance)
      clear == /\ new.x > 0
               /\ new.y > 0
               /\ new.x < MAP_X_DIM * One
               /\ new.y < MAP_Y_DIM * One
  IN  [pose |-> IF clear THEN [p EXCEPT !.x = new.x, !.y = new.y] ELSE p,
       accepted |-> clear,
       reads |-> << >>]

\* step_forward that slides along x when the move is rejected
step_forward_slide(p, m, distance, ub) ==
  LET new == Candidate(p, distance)
      ix == Trunc(new.x)
      iy == Trunc(new.y)
      clear == /\ ReadMap(m, ix, iy, ub) = 0
               /\ new.x > 0
               /\ new.y > 0
               /\ new.x < MAP_X_DIM * One
               /\ new.y < MAP_Y_DIM * One
  IN  [pose |-> IF clear THEN [p EXCEPT !.x = new.x, !.y = new.y]
                ELSE [p EXCEPT !.x = new.x],
       accepted |-> clear,
       reads |-> << <<ix, iy>> >>]

\* step_forward(distance): the map is read at the truncated candidate first,
\* then the candidate is compared with the open bounds
step_forward(p, m, distance, ub) ==
  LET new == Candidate(p, distance)
      ix == Trunc(new.x)
      iy == Trunc(new.y)
      clear == /\ ReadMap(m, ix, iy, ub) = 0
               /\ new.x > 0
               /\ new.y > 0
               /\ new.x < MAP_X_DIM * One
               /\ new.y < MAP_Y_DIM * One
  IN  [pose |-> IF clear THEN [p EXCEPT !.x = new.x, !.y = new.y] ELSE p,
       accepted |-> clear,
       reads |-> << <<ix, iy>> >>]

\* step_backward that passes the distance on unnegated
step_backward_nosign(p, m, distance, ub) == step_forward(p, m, distance, ub)

\* step_backward(distance) is step_forward(-distance)
step_backward(p, m, distance, ub) == step_forward(p, m, 0 - distance, ub)

\* player_bearing -= speed, a float subtraction
turn_left(p, speed) == [p EXCEPT !.bearing = FAdd(@, 0 - speed)]

\* turn_right that keeps the bearing in [0, 360)
turn_right_wrap(p, speed) == [p EXCEPT !.bearing = FAdd(@, speed) % FullTurn]

\* player_bearing += speed, a float addition
turn_right(p, speed) == [p EXCEPT !.bearing = FAdd(@, speed)]

\* strafe_left that turns back only after an accepted step
strafe_left_noturnback(p, m, distance, ub) ==
  LET s == step_forward(turn_left(p, Deg90), m, distance, ub)
  IN  IF s.accepted THEN [s EXCEPT !.pose = turn_right(s.pose, Deg90)] ELSE s

\* strafe_left: turn_left(90); step_forward(distance); turn_right(90)
strafe_left(p, m, distance, ub) ==
  LET s == step_forward(turn_left(p, Deg90), m, distance, ub)
  IN  [s EXCEPT !.pose = turn_right(s.pose, Deg90)]

\* strafe_right without the turn back
strafe_right_noturnback(p, m, distance, ub) ==
  step_forward(turn_right(p, Deg90), m, distance, ub)

\* strafe_right: turn_right(90); step_forward(distance); turn_left(90)
strafe_right(p, m, distance, ub) ==
  LET s == step_forward(turn_right(p, Deg90), m, distance, ub)
  IN  [s EXCEPT !.pose = turn_left(s.pose, Deg90)]

\* -------------------------------------------------------------- the ray caster
\* the radius with the projection constant 0.5 of the older variant
Radius_half(wall_height) == FDivInt(k * screen_height, 2 * wall_height)

\* the radius with the quotient upside down
Radius_inverted(wall_height) == FDivInt(k * wall_height, screen_height)

\* float r = (k * screen_height) / wall_height
Radius(wall_height) == FDivInt(k * screen_height, wall_height)

\* player_x + r * cos(theta_radians), player_y + r * sin(theta_radians)
RayX(p, theta, r) == FAdd(p.x, FMulTrig(r, Cos(theta)))

RayY(p, theta, r) == FAdd(p.y, FMulTrig(r, Sin(theta)))

\* x < 0 || y < 0 || x >= MAP_X_DIM || y >= MAP_Y_DIM
OutOfMap(x, y) == x < 0 \/ y < 0 \/ x >= MAP_X_DIM * One \/ y >= MAP_Y_DIM * One

\* the test without the bounds test
IsHit_nobounds(m, x, y, ub) == ReadMap(m, Trunc(x), Trunc(y), ub) # 0

\* the test of the scan loop at the point <<x, y>>: out of the map, or else
\* my_map read at the truncated point and found nonzero
IsHit(m, x, y, ub) == OutOfMap(x, y) \/ ReadMap(m, Trunc(x), Trunc(y), ub) # 0

\* the number of reads of my_map that test makes with an index out of range
BadRead(x, y) == IF ~OutOfMap(x, y) /\ ~InRange(Trunc(x), Trunc(y)) THEN 1 ELSE 0

\* the scan loop of column sliver at view angle theta, wall_height from
\* screen_height down in steps of HeightDec while wall_height > 0: the first
\* sample that is out of the map or in a nonzero cell is the hit, for which
\* render_sliver is called, and the scan of the column stops there.
\* bad_reads counts the out-of-range reads of my_map, samples lists the
\* wall heights the loop body ran with and the radius computed for each, and
\* theta is the view angle of the column.  (r, x and y are bound through
\* singleton sets so that each is computed once per sample.)
scan_column(p, m, theta, ub, sliver) ==
  LET scan[wall_height \in Int] ==
        IF wall_height <= 0
        THEN [sliver |-> sliver, theta |-> theta, hit |-> FALSE,
              wall_height |-> 0, r |-> 0, bad_reads |-> 0, samples |-> << >>]
        ELSE CHOOSE c \in
               { IF IsHit(m, x, y, ub)
                 THEN [sliver |-> sliver, theta |-> theta, hit |-> TRUE,
                       wall_height |-> wall_height, r |-> r,
                       bad_reads |-> BadRead(x, y),
                       samples |-> << <<wall_height, r>> >>]
                 ELSE [scan[wall_height - HeightDec]
                         EXCEPT !.bad_reads = @ + BadRead(x, y),
                                !.samples = << <<wall_height, r>> >> \o @] :
                 <<r, x, y>> \in
                   { <<r0, RayX(p, theta, r0), RayY(p, theta, r0)>> :
                       r0 \in {Radius(wall_height)} } } : TRUE
  IN  scan[screen_height]

\* a radius with a projection constant of 0.25
Radius_quarter(wall_height) == FDivInt(screen_height \div 4, wall_height)

\* float r = (k * screen_height) / wall_height of the older ray_cast kept in
\* the file, whose k is 0.5: k * screen_height is 32
Radius_older(wall_height) == FDivInt(screen_height \div 2, wall_height)

\* the scan loop of a column of the older ray_cast: that of scan_column with
\* the radius of k = 0.5
scan_column_older(p, m, theta, ub, sliver) ==
  LET scan[wall_height \in Int] ==
        IF wall_height <= 0
        THEN [sliver |-> sliver, theta |-> theta, hit |-> FALSE,
              wall_height |-> 0, r |-> 0, bad_reads |-> 0, samples |-> << >>]
        ELSE CHOOSE c \in
               { IF IsHit(m, x, y, ub)
                 THEN [sliver |-> sliver, theta |-> theta, hit |-> TRUE,
                       wall_height |-> wall_height, r |-> r,
                       bad_reads |-> BadRead(x, y),
                       samples |-> << <<wall_height, r>> >>]
                 ELSE [scan[wall_height - HeightDec]
                         EXCEPT !.bad_reads = @ + BadRead(x, y),
                                !.samples = << <<wall_height, r>> >> \o @] :
                 <<r, x, y>> \in
                   { <<r0, RayX(p, theta, r0), RayY(p, theta, r0)>> :
                       r0 \in {Radius_older(wall_height)} } } : TRUE
  IN  scan[screen_height]

\* (int) of a float given in halves, as the int parameters of put_pixel and
\* the int y of the fill loop take it: truncation toward zero
IntOfHalves(v) == IF v >= 0 THEN v \div 2 ELSE 0 - ((0 - v) \div 2)

\* render_sliver(x, wall_height, wall_color): the pixels it calls put_pixel
\* for, the top of the wall at screen_middle_y - half_wall_height, the bottom
\* at screen_middle_y + half_wall_height and the textured rows from the top
\* + 1 while y <= the bottom - 1; screen_middle_y is screen_height / 2.0 and
\* half_wall_height is wall_height / 2.0
render_sliver(x, wall_height) ==
  { <<x, IntOfHalves(screen_height - wall_height)>>,
    <<x, IntOfHalves(screen_height + wall_height)>> }
  \cup { <<x, y>> : y \in { row \in IntOfHalves(screen_height - wall_height + 2)
                                     .. screen_height + wall_height :
                              2 * row <= screen_height + wall_height - 2 } }

\* const char WALL_TEXTURE_X_DIM, WALL_TEXTURE_Y_DIM, NUM_WALL_TEXTURES: the
\* dimensions of wall_textures[NUM_WALL_TEXTURES][WALL_TEXTURE_X_DIM]
\* [WALL_TEXTURE_Y_DIM]
WALL_TEXTURE_X_DIM == 3
WALL_TEXTURE_Y_DIM == 3
NUM_WALL_TEXTURES == 20

\* a % b of the language for b > 0: the remainder has the sign of a
Rem(a, b) == IF a >= 0 THEN a % b ELSE 0 - ((0 - a) % b)

\* the rows of the fill loop of render_sliver: int y from screen_middle_y -
\* half_wall_height + 1 while y <= screen_middle_y + half_wall_height - 1
fill_rows(wall_height) ==
  { row \in IntOfHalves(screen_height - wall_height + 2)
              .. screen_height + wall_height :
      2 * row <= screen_height + wall_height - 2 }

\* a render_sliver that indexes the textures without the clamp of wi
texture_index_noclamp(x, y, wall_height) ==
  [wi |-> Trunc(Fl(FDivInt(wall_height, screen_height) * NUM_WALL_TEXTURES)),
   wx |-> Rem(x, WALL_TEXTURE_X_DIM),
   wy |-> Rem(y, WALL_TEXTURE_Y_DIM)]

\* the indices wi, wx, wy of the read of wall_textures for the pixel of
\* column x and row y of a wall of wall_height: wi is (int)((wall_height /
\* screen_height) * NUM_WALL_TEXTURES), a float product, lowered to
\* NUM_WALL_TEXTURES - 1 when greater
texture_index(x, y, wall_height) ==
  LET wi == Trunc(Fl(FDivInt(wall_height, screen_height) * NUM_WALL_TEXTURES))
  IN  [wi |-> IF wi > NUM_WALL_TEXTURES - 1 THEN NUM_WALL_TEXTURES - 1 ELSE wi,
       wx |-> Rem(x, WALL_TEXTURE_X_DIM),
       wy |-> Rem(y, WALL_TEXTURE_Y_DIM)]

\* the reads of wall_textures render_sliver(x, wall_height, ...) makes
texture_reads(x, wall_height) ==
  { texture_index(x, y, wall_height) : y \in fill_rows(wall_height) }

\* the view angle step that ends the last column on bearing + FOV / 2
theta_inc_fencepost(n) == FOV \div (n - 1)

\* theta_inc = FOV / NUM_SLIVERS, for a screen of n columns
theta_inc(n) == FOV \div n

\* theta += theta_inc, a float addition
NextTheta(theta, n) == CHOOSE t \in { Fl(sum) : sum \in {theta + theta_inc(n)} } : TRUE

RECURSIVE sliver_thetas(_, _, _)
\* the view angles of count columns in a row, in column order, the first
\* of which is scanned at theta: theta += theta_inc runs once after each
\* column (the run is computed half by half to keep the recursion shallow)
sliver_thetas(theta, n, count) ==
  IF count = 1 THEN << theta >>
  ELSE CHOOSE s \in
         { first \o sliver_thetas(NextTheta(first[Len(first)], n), n,
                                  count - count \div 2) :
             first \in {sliver_thetas(theta, n, count \div 2)} } : TRUE

\* ray_cast() on a screen of n columns: the outcome of every column's scan,
\* in column order; theta starts at player_bearing - FOV / 2
ray_cast(p, m, n, ub) ==
  CHOOSE cast \in
    { [i \in 1 .. n |->
         CHOOSE c \in { scan_column(p, m, theta, ub, i - 1) :
                          theta \in {thetas[i]} } : TRUE] :
        thetas \in {sliver_thetas(FAdd(p.bearing, 0 - FOV \div 2), n, n)} } :
    TRUE

\* -------------------------------------------------------------------- state
VARIABLES
  my_map,          \* char my_map[MAP_X_DIM][MAP_Y_DIM]
  player_x,        \* player position, fixed units
  player_y,
  player_bearing,  \* angle units
  pc,              \* where the sketch is: "setup", "halt", or a place in loop()
  frame_number,
  frame_ops,       \* the display operations of the current loop iteration
  slivers,         \* the outcome of each column of ray_cast, while it is the
                   \* latest operation
  last,            \* the latest movement call: operation, argument, pose before, outcome
  trip,            \* set by a call that directly follows its inverse with the same
                   \* argument (step_backward(d) after an accepted
                   \* step_forward(d), a turn after the opposite turn): the pose
                   \* before the pair
  calls,           \* movement calls made
  tick,            \* the current iteration of loop(): the pose at its start, the
                   \* pose ray_cast has read, the pins read as pressed so far
  pin_modes        \* the pins setup() has configured with pinMode

vars == << my_map, player_x, player_y, player_bearing, pc, frame_number,
           frame_ops, slivers, last, trip, calls, tick, pin_modes >>

Pose == [x |-> player_x, y |-> player_y, bearing |-> player_bearing]

NoCall == [op |-> "none", arg |-> 0, before |-> InitPose, accepted |-> FALSE,
           reads |-> << >>]

NoTrip == [active |-> FALSE, origin |-> InitPose]

NoTick == [start |-> InitPose, cast |-> InitPose, pressed |-> << >>]

\* the pins of the pinMode calls of setup()
Pins ==
  { "RR_PIN_A", "RR_PIN_B", "RR_PIN_UP", "RR_PIN_DOWN", "RR_PIN_LEFT",
    "RR_PIN_RIGHT", "RR_PIN_SOUND" }

\* the globals as their initialisers leave them, before setup() runs
Init ==
  /\ my_map = clear_map
  /\ player_x = InitPose.x
  /\ player_y = InitPose.y
  /\ player_bearing = InitPose.bearing
  /\ pc = "setup"
  /\ frame_number = 0
  /\ frame_ops = << >>
  /\ slivers = << >>
  /\ last = NoCall
  /\ trip = NoTrip
  /\ calls = 0
  /\ tick = NoTick
  /\ pin_modes = {}

\* a setup() that tests display.begin last, after the map and the pins
Setup_halts_late ==
  /\ pc = "setup"
  /\ \E display_ok \in BOOLEAN :
       /\ \E walls \in WallChoices(SetupDensity) :
            my_map' = randomize_map(walls, player_x, player_y)
       /\ pin_modes' = Pins
       /\ pc' = IF display_ok THEN "clear" ELSE "halt"
  /\ frame_number' = 0
  /\ UNCHANGED << player_x, player_y, player_bearing, frame_ops, slivers, last,
                  trip, calls, tick >>

\* setup(): if display.begin fails the sketch spins in for(;;); otherwise
\* frame_number = 0, clear_map(), randomize_map(17), the pinMode calls, and
\* the loop starts
Setup ==
  /\ pc = "setup"
  /\ \E display_ok \in BOOLEAN :
       IF display_ok
       THEN /\ \E walls \in WallChoices(SetupDensity) :
                 my_map' = randomize_map(walls, player_x, player_y)
            /\ pin_modes' = Pins
            /\ pc' = "clear"
       ELSE /\ pc' = "halt"
            /\ UNCHANGED << my_map, pin_modes >>
  /\ frame_number' = 0
  /\ UNCHANGED << player_x, player_y, player_bearing, frame_ops, slivers, last,
                  trip, calls, tick >>

\* a call and the call that undoes it
InversePairs ==
  { <<"step_forward", "step_backward">>,
    <<"turn_left", "turn_right">>,
    <<"turn_right", "turn_left">> }

\* a movement call that marks the player's cell in the map
Move_marks(op, arg, res) ==
  /\ player_x' = res.pose.x
  /\ player_y' = res.pose.y
  /\ player_bearing' = res.pose.bearing
  /\ last' = [op |-> op, arg |-> arg, before |-> Pose,
              accepted |-> res.accepted, reads |-> res.reads]
  /\ trip' = IF /\ <<last.op, op>> \in InversePairs
                /\ last.arg = arg
                /\ last.accepted
             THEN [active |-> TRUE, origin |-> last.before]
             ELSE NoTrip
  /\ slivers' = << >>
  /\ my_map' = [my_map EXCEPT ![<<Trunc(res.pose.x), Trunc(res.pose.y)>>] = 1]

\* the effect of a movement call op(arg) whose result is res
Move(op, arg, res) ==
  /\ player_x' = res.pose.x
  /\ player_y' = res.pose.y
  /\ player_bearing' = res.pose.bearing
  /\ last' = [op |-> op, arg |-> arg, before |-> Pose,
              accepted |-> res.accepted, reads |-> res.reads]
  /\ trip' = IF /\ <<last.op, op>> \in InversePairs
                /\ last.arg = arg
                /\ last.accepted
             THEN [active |-> TRUE, origin |-> last.before]
             ELSE NoTrip
  /\ slivers' = << >>
  /\ UNCHANGED my_map

\* the result of a turn: it always succeeds and reads no map cell
Turned(p) == [pose |-> p, accepted |-> TRUE, reads |-> << >>]

DoStepForward(d) ==
  \E ub \in UBValues : Move("step_forward", d, step_forward(Pose, my_map, d, ub))

DoStepBackward(d) ==
  \E ub \in UBValues : Move("step_backward", d, step_backward(Pose, my_map, d, ub))

DoTurnLeft(s) == Move("turn_left", s, Turned(turn_left(Pose, s)))

DoTurnRight(s) == Move("turn_right", s, Turned(turn_right(Pose, s)))

DoStrafeLeft(d) ==
  \E ub \in UBValues : Move("strafe_left", d, strafe_left(Pose, my_map, d, ub))

DoStrafeRight(d) ==
  \E ub \in UBValues : Move("strafe_right", d, strafe_right(Pose, my_map, d, ub))

\* ray_cast() on a screen of n columns
\* (the value of an out-of-range read matters only to a cast that makes one)
DoRayCast(n) ==
  /\ \E c \in {ray_cast(Pose, my_map, n, 0)} :
       IF \A i \in 1 .. n : c[i].bad_reads = 0
       THEN slivers' = c
       ELSE \E ub \in UBValues : slivers' = ray_cast(Pose, my_map, n, ub)
  /\ UNCHANGED << my_map, player_x, player_y, player_bearing, last, trip >>

\* ------------------------------------------------------------------- loop()
\* a loop that polls the buttons before it renders
ClearDisplay_polls ==
  /\ pc = "clear"
  /\ frame_number < MaxFrames
  /\ frame_ops' = << "clear" >>
  /\ slivers' = << >>
  /\ pc' = "pin_forward"
  /\ tick' = [NoTick EXCEPT !.start = Pose]
  /\ UNCHANGED << my_map, player_x, player_y, player_bearing, frame_number,
                  last, trip, calls, pin_modes >>

\* display.clearDisplay(), the first statement of loop()
ClearDisplay ==
  /\ pc = "clear"
  /\ frame_number < MaxFrames
  /\ frame_ops' = << "clear" >>
  /\ slivers' = << >>
  /\ pc' = "ray_cast"
  /\ tick' = [NoTick EXCEPT !.start = Pose]
  /\ UNCHANGED << my_map, player_x, player_y, player_bearing, frame_number,
                  last, trip, calls, pin_modes >>

RayCast ==
  /\ pc = "ray_cast"
  /\ DoRayCast(NUM_SLIVERS)
  /\ frame_ops' = Append(frame_ops, "ray_cast")
  /\ pc' = "draw_map"
  /\ tick' = [tick EXCEPT !.cast = Pose]
  /\ UNCHANGED << frame_number, calls, pin_modes >>

\* a draw_map() that turns the player while it draws
DrawMap_turns ==
  /\ pc = "draw_map"
  /\ frame_ops' = Append(frame_ops, "draw_map")
  /\ pc' = "display_frame_number"
  /\ player_bearing' = turn_left(Pose, player_turn_speed).bearing
  /\ UNCHANGED << my_map, player_x, player_y, frame_number, slivers, last,
                  trip, calls, tick, pin_modes >>

\* draw_map(), the third statement of loop()
DrawMap ==
  /\ pc = "draw_map"
  /\ frame_ops' = Append(frame_ops, "draw_map")
  /\ pc' = "display_frame_number"
  /\ UNCHANGED << my_map, player_x, player_y, player_bearing, frame_number,
                  slivers, last, trip, calls, tick, pin_modes >>

\* a loop that presents the frame without drawing the frame-rate text
DisplayFrameNumber_early ==
  /\ pc = "display_frame_number"
  /\ frame_ops' = Append(frame_ops, "display")
  /\ pc' = "pin_forward"
  /\ UNCHANGED << my_map, player_x, player_y, player_bearing, frame_number,
                  slivers, last, trip, calls, tick, pin_modes >>

\* display_frame_number()
DisplayFrameNumber ==
  /\ pc = "display_frame_number"
  /\ frame_ops' = Append(frame_ops, "display_frame_number")
  /\ pc' = "display"
  /\ UNCHANGED << my_map, player_x, player_y, player_bearing, frame_number,
                  slivers, last, trip, calls, tick, pin_modes >>

\* display.display()
Present ==
  /\ pc = "display"
  /\ frame_ops' = Append(frame_ops, "display")
  /\ pc' = "pin_forward"
  /\ UNCHANGED << my_map, player_x, player_y, player_bearing, frame_number,
                  slivers, last, trip, calls, tick, pin_modes >>

\* if (!digitalRead(pin)) op(speed); at place here of loop(), next place there
Poll(here, there, pressed_effect) ==
  /\ pc = here
  /\ \E pressed \in BOOLEAN :
       IF pressed
       THEN /\ calls < MaxPresses
            /\ pressed_effect
            /\ calls' = calls + 1
            /\ tick' = [tick EXCEPT !.pressed = Append(@, here)]
       ELSE UNCHANGED << my_map, player_x, player_y, player_bearing, last,
                         trip, slivers, calls, tick >>
  /\ pc' = there
  /\ UNCHANGED << frame_number, frame_ops, pin_modes >>

PollForward == Poll("pin_forward", "pin_backward", DoStepForward(player_walk_speed))

\* a backward button that steps forward
PollBackward_forward ==
  Poll("pin_backward", "pin_left", DoStepForward(player_walk_speed))

PollBackward == Poll("pin_backward", "pin_left", DoStepBackward(player_walk_speed))

PollLeft == Poll("pin_left", "pin_right", DoTurnLeft(player_turn_speed))

PollRight == Poll("pin_right", "pin_strafe_left", DoTurnRight(player_turn_speed))

PollStrafeLeft ==
  Poll("pin_strafe_left", "pin_strafe_right", DoStrafeLeft(player_walk_speed))

PollStrafeRight ==
  Poll("pin_strafe_right", "frame_number", DoStrafeRight(player_walk_speed))

\* a loop that goes back to the first button when it has read the last
NextFrame_repolls ==
  /\ pc = "frame_number"
  /\ pc' = "pin_forward"
  /\ UNCHANGED << my_map, player_x, player_y, player_bearing, frame_number,
                  frame_ops, slivers, last, trip, calls, tick, pin_modes >>

\* frame_number++
NextFrame ==
  /\ pc = "frame_number"
  /\ frame_number' = frame_number + 1
  /\ pc' = "clear"
  /\ UNCHANGED << my_map, player_x, player_y, player_bearing, frame_ops,
                  slivers, last, trip, calls, tick, pin_modes >>

Next ==
  \/ Setup
  \/ ClearDisplay
  \/ RayCast
  \/ DrawMap
  \/ DisplayFrameNumber
  \/ Present
  \/ PollForward
  \/ PollBackward
  \/ PollLeft
  \/ PollRight
  \/ PollStrafeLeft
  \/ PollStrafeRight
  \/ NextFrame

Spec == Init /\ [][Next]_vars

\* the loop for MaxLiveFrames iterations, with at most MaxLivePresses buttons
\* read as pressed
NextLive ==
  /\ pc = "clear" => frame_number < MaxLiveFrames
  /\ Next
  /\ calls' <= MaxLivePresses

\* the sketch runs on one thread that always goes on to its next statement:
\* loop() is called again whenever it returns, and the reads of the pins and
\* the calls of the display return
SpecLive == Init /\ [][NextLive]_vars /\ WF_vars(NextLive)

\* ------------------------------------------- the operations called directly
\* the distances and speeds the calls are made with: the configured ones and
\* the step_forward(1) and turn of 90 the sketch also uses
Distances == {player_walk_speed, One}

TurnSpeeds == {player_turn_speed, Deg90}

\* a call is made between frames, after setup
Called ==
  /\ pc = "clear"
  /\ calls < MaxCalls
  /\ calls' = calls + 1
  /\ UNCHANGED << pc, frame_number, frame_ops, tick, pin_modes >>

CallStepForward == Called /\ \E d \in Distances : DoStepForward(d)

CallStepBackward == Called /\ \E d \in Distances : DoStepBackward(d)

CallTurnLeft == Called /\ \E s \in TurnSpeeds : DoTurnLeft(s)

CallTurnRight == Called /\ \E s \in TurnSpeeds : DoTurnRight(s)

CallStrafeLeft == Called /\ \E d \in Distances : DoStrafeLeft(d)

CallStrafeRight == Called /\ \E d \in Distances : DoStrafeRight(d)

NextCalls ==
  \/ Setup
  \/ CallStepForward
  \/ CallStepBackward
  \/ CallTurnLeft
  \/ CallTurnRight
  \/ CallStrafeLeft
  \/ CallStrafeRight

SpecCalls == Init /\ [][NextCalls]_vars

\* ------------------------------------------------- turning after many turns
\* the turns of player_turn_speed, right less left, that the loop has made
\* before: none, and the numbers that bring the bearing to where the floats
\* are spaced wider than player_turn_speed
LongTurn == (2^(MantBits + 4) - InitPose.bearing) \div player_turn_speed

TurnsMade ==
  {0} \cup { LongTurn - j : j \in 0 .. 2 }
      \cup { 0 - (LongTurn + 2 * (InitPose.bearing \div player_turn_speed)) + j : j \in 0 .. 2 }

InitTurn ==
  /\ \E walls \in WallChoices(SetupDensity) :
       my_map = randomize_map(walls, InitPose.x, InitPose.y)
  /\ player_x = InitPose.x
  /\ player_y = InitPose.y
  /\ \E n \in TurnsMade : player_bearing = InitPose.bearing + n * player_turn_speed
  /\ pc = "clear"
  /\ frame_number = 0
  /\ frame_ops = << >>
  /\ slivers = << >>
  /\ last = NoCall
  /\ trip = NoTrip
  /\ calls = 0
  /\ tick = NoTick
  /\ pin_modes = Pins

NextTurn ==
  \/ CallTurnLeft
  \/ CallTurnRight

SpecTurn == InitTurn /\ [][NextTurn]_vars

\* ------------------------------------------------------------ the map view
\* int map_block_dim: the side of a map cell on the screen, in pixels
map_block_dim == 2

\* float look_dist of draw_map: the length of the line of sight, in pixels
look_dist == 2

\* pete_rect(x1, y1, x2, y2): the pixels it calls put_pixel for, in colour c
pete_rect(x1, y1, x2, y2, c) ==
  { <<x, y, c>> : x \in x1 .. x2 - 1, y \in y1 .. y2 - 1 }

\* pete_line(x1, y1, x2, y2): the pixels it calls put_pixel for, in colour c.
\* The ends are swapped when x2 < x1; a line that is not vertical has one
\* pixel for every x from x1 while x < x2, at (int)(m * x + b) computed in
\* floats; a vertical line has one for every y from the lesser end while
\* y < the greater end
pete_line(x1, y1, x2, y2, c) ==
  LET swap == x2 < x1
      xa == IF swap THEN x2 ELSE x1
      ya == IF swap THEN y2 ELSE y1
      xb == IF swap THEN x1 ELSE x2
      yb == IF swap THEN y1 ELSE y2
  IN  IF xa # xb
      THEN LET m == FDivInt(yb - ya, xb - xa)
               b == FAdd(ya * One, 0 - Fl(m * xa))
           IN  { <<x, Trunc(FAdd(Fl(m * x), b)), c>> : x \in xa .. xb - 1 }
      ELSE { <<xa, y, c>> : y \in Min(ya, yb) .. Max(ya, yb) - 1 }

\* draw_map(): the pixels it calls put_pixel for with the player at pose p on
\* map m: a block of map_block_dim pixels square for every cell, in the
\* cell's colour, the line of sight from the player's pixel to the point
\* look_dist along the bearing, and the player's pixel
draw_map(p, m) ==
  LET display_player_x == Trunc(Fl(p.x * map_block_dim))
      display_player_y == Trunc(Fl(p.y * map_block_dim))
      player_look_x == FAdd(display_player_x * One,
                            FMulTrig(look_dist * One, Cos(p.bearing)))
      player_look_y == FAdd(display_player_y * One,
                            FMulTrig(look_dist * One, Sin(p.bearing)))
  IN  UNION { pete_rect(c[1] * map_block_dim, c[2] * map_block_dim,
                        (c[1] + 1) * map_block_dim, (c[2] + 1) * map_block_dim,
                        m[c]) : c \in Cells }
      \cup pete_line(display_player_x, display_player_y,
                     Trunc(player_look_x), Trunc(player_look_y), 1)
      \cup { <<display_player_x, display_player_y, 1>> }

\* ------------------------------------------------- the ray caster on its own
RECURSIVE Walk(_, _, _)
\* the coordinate reached from x by j steps of d along an axis
Walk(x, d, j) == IF j = 0 THEN x ELSE Walk(FAdd(x, d), d, j - 1)

\* the centre of cell c along one axis
Centre(c) == c * One + One \div 2

\* coordinates the player reaches on lines of empty cells: cell centres, and
\* points four walk steps from a centre, next to a cell edge
CastCoords ==
  { Centre(5), Centre(4),
    Walk(Centre(5), 0 - player_walk_speed, 4),
    Walk(Centre(0), 0 - player_walk_speed, 4),
    Walk(Centre(9), player_walk_speed, 4) }

\* the bearings of the casts: the sixteen multiples of 22.5 degrees
CastBearings == { 3 * Deg90 + j * 2 * player_turn_speed : j \in -8 .. 7 }

\* do cells c and d share an edge
Adjacent(c, d) == Abs(c[1] - d[1]) + Abs(c[2] - d[2]) = 1

RECURSIVE Flood(_, _)
\* the empty cells of m joined to the cells of reached by empty cells
Flood(m, reached) ==
  LET more == reached \cup { c \in Cells : m[c] = 0 /\ \E d \in reached : Adjacent(c, d) }
  IN  IF more = reached THEN reached ELSE Flood(m, more)

\* the poses ray_cast is applied to on a map whose cells joined to the start
\* cell by empty cells are those of reach: the diagonal and the middle column
CastPoses(reach) ==
  { p \in [x : CastCoords, y : CastCoords, bearing : CastBearings] :
      /\ p.x = p.y \/ p.x = Centre(5)
      /\ <<Trunc(p.x), Trunc(p.y)>> \in reach }

\* the columns of the screen of the scenario of spec section 8
ScenarioSlivers == 4

\* after setup, with the player somewhere on the map
InitCast ==
  /\ \E walls \in WallChoices(SetupDensity) :
       my_map = randomize_map(walls, InitPose.x, InitPose.y)
  /\ \E reach \in {Flood(my_map, {<<5, 5>>})} :
       \E p \in CastPoses(reach) :
         /\ player_x = p.x
         /\ player_y = p.y
         /\ player_bearing = p.bearing
  /\ pc = "clear"
  /\ frame_number = 0
  /\ frame_ops = << >>
  /\ slivers = << >>
  /\ last = NoCall
  /\ trip = NoTrip
  /\ calls = 0
  /\ tick = NoTick
  /\ pin_modes = Pins

\* one ray_cast is made from the pose
Cast(n) ==
  /\ slivers = << >>
  /\ DoRayCast(n)
  /\ UNCHANGED << pc, frame_number, frame_ops, calls, tick, pin_modes >>

CastScreen == Cast(NUM_SLIVERS)

CastScenario == Cast(ScenarioSlivers)

\* draw_map() follows the cast, as in loop()
CastDrawMap ==
  /\ slivers # << >>
  /\ frame_ops = << >>
  /\ frame_ops' = << "draw_map" >>
  /\ UNCHANGED << my_map, player_x, player_y, player_bearing, pc,
                  frame_number, slivers, last, trip, calls, tick, pin_modes >>

NextCast ==
  \/ CastScreen
  \/ CastScenario

SpecCast == InitCast /\ [][NextCast]_vars

\* ------------------------------------------------- the map view on its own
\* the cast of the screen and the draw_map() that follows it
NextDrawMap ==
  \/ CastScreen
  \/ CastDrawMap

SpecDrawMap == InitCast /\ [][NextDrawMap]_vars

\* ------------------------------------------------ walking from where one is
\* after setup, with the player somewhere on the map
InitWalk == InitCast

\* a call is made between frames
Walked ==
  /\ pc = "clear"
  /\ calls < MaxWalk
  /\ calls' = calls + 1
  /\ UNCHANGED << pc, frame_number, frame_ops, tick, pin_modes >>

\* the calls the forward, left and right buttons make
WalkForward == Walked /\ DoStepForward(player_walk_speed)

WalkLeft == Walked /\ DoTurnLeft(player_turn_speed)

WalkRight == Walked /\ DoTurnRight(player_turn_speed)

NextWalk ==
  \/ WalkForward
  \/ WalkLeft
  \/ WalkRight

SpecWalk == InitWalk /\ [][NextWalk]_vars

\* ---------------------------------------------------------------- properties
StepOps == {"step_forward", "step_backward"}

\* is the point <<x, y>> strictly inside (0, MAP_X_DIM) x (0, MAP_Y_DIM)
StrictlyInside(x, y) ==
  x > 0 /\ y > 0 /\ x < MAP_X_DIM * One /\ y < MAP_Y_DIM * One

\* is the point <<x, y>> strictly inside the map and in an empty cell of m
InEmptyCell(m, x, y) ==
  StrictlyInside(x, y) /\ m[<<Trunc(x), Trunc(y)>>] = 0

\* C1: after setup, whatever movement calls are made on whatever map, the
\* player is strictly inside (0, MAP_X_DIM) x (0, MAP_Y_DIM) and the map cell
\* at the truncated position is 0.
C1_PlayerInEmptyCell ==
  pc \notin {"setup", "halt"} => InEmptyCell(my_map, player_x, player_y)

\* the player has walked out of the start cell on a map that has walls
C1_Witness ==
  /\ last.op \in StepOps \cup {"strafe_left", "strafe_right"}
  /\ last.accepted
  /\ <<Trunc(player_x), Trunc(player_y)>> # <<5, 5>>
  /\ \E c \in Cells : my_map[c] # 0
  /\ \E c \in Cells : c # <<5, 5>> /\ my_map[c] = 0

\* C2: every read of my_map made by step_forward and by ray_cast uses an x
\* index in 0..MAP_X_DIM-1 and a y index in 0..MAP_Y_DIM-1.
C2_MapReadsInRange ==
  /\ \A i \in 1 .. Len(last.reads) : InRange(last.reads[i][1], last.reads[i][2])
  /\ \A i \in 1 .. Len(slivers) : slivers[i].bad_reads = 0

\* the signed distance a step call passes to step_forward
SignedDistance(op, arg) == IF op = "step_backward" THEN 0 - arg ELSE arg

\* is the candidate of a step of signed distance d from pose p blocked: not
\* strictly inside the map, or in a nonzero cell
Blocked(m, p, d) ==
  ~InEmptyCell(m, Candidate(p, d).x, Candidate(p, d).y)

\* this step of the behaviour is a call of step_forward or step_backward
StepCall == calls' = calls + 1 /\ last'.op \in StepOps

\* C3: a step_forward or step_backward whose candidate position is in a
\* nonzero cell or not strictly inside the map is rejected: position, bearing
\* and map after the call are those before it.
C3_RejectedStepChangesNothing ==
  [][ (StepCall /\ Blocked(my_map, Pose, SignedDistance(last'.op, last'.arg)))
        => /\ ~last'.accepted
           /\ player_x' = player_x
           /\ player_y' = player_y
           /\ player_bearing' = player_bearing
           /\ my_map' = my_map ]_vars

\* a step into the wall cell ahead has been rejected
C3_Witness ==
  /\ last.op = "step_forward"
  /\ ~last.accepted
  /\ Len(last.reads) = 1
  /\ InRange(last.reads[1][1], last.reads[1][2])
  /\ my_map[last.reads[1]] # 0
  /\ Pose = last.before

\* the render_sliver calls of the cast, in the order they were made
IsRendered(c) == c.hit

Renders == SelectSeq(slivers, IsRendered)

\* C4: a ray_cast of the screen produces exactly NUM_SLIVERS column results,
\* one for each column 0..NUM_SLIVERS-1 in increasing order, each with a
\* wall_height in [0, screen_height].
C4_OneResultPerColumn ==
  Len(slivers) = NUM_SLIVERS =>
    \A rs \in {Renders} :
      /\ Len(rs) = NUM_SLIVERS
      /\ \A i \in 1 .. Len(rs) :
           /\ rs[i].sliver = i - 1
           /\ rs[i].wall_height \in 0 .. screen_height

\* the screen has been cast on a map with walls, away from the start pose,
\* and shows walls of different heights
C4_Witness ==
  /\ Len(slivers) = NUM_SLIVERS
  /\ Pose # InitPose
  /\ \E c \in Cells : my_map[c] # 0
  /\ \E i, j \in 1 .. NUM_SLIVERS : slivers[i].wall_height # slivers[j].wall_height

\* the view angle of column c of the cast held in slivers
ThetaOf(c) == c.theta

\* is the point <<x, y>> in an occupied cell of the map
Occupied(x, y) ==
  /\ ~OutOfMap(x, y)
  /\ my_map[<<Trunc(x), Trunc(y)>>] # 0

\* the point at distance t from the player along view angle theta
AlongX(theta, t) == player_x + RoundDiv(t * Cos(theta), One)

AlongY(theta, t) == player_y + RoundDiv(t * Sin(theta), One)

\* the cell of the point the cast reports for column c
HitCell(c) ==
  << Trunc(RayX(Pose, ThetaOf(c), c.r)), Trunc(RayY(Pose, ThetaOf(c), c.r)) >>

\* C5 as claimed: the reported hit is the first occupied cell (or the map
\* boundary) along the ray: no point of the ray nearer than the reported
\* radius r, taken every quarter of a map unit, is in an occupied cell other
\* than the cell of the reported hit.
C5_NoOccupiedCellNearer ==
  \A i \in 1 .. Len(slivers) :
    slivers[i].hit =>
      \A theta \in {ThetaOf(slivers[i])}, cell \in {HitCell(slivers[i])} :
        \A j \in 1 .. (4 * slivers[i].r) \div One :
          \A x \in {AlongX(theta, j * (One \div 4))},
             y \in {AlongY(theta, j * (One \div 4))} :
            (j * (One \div 4) < slivers[i].r /\ Occupied(x, y))
               => <<Trunc(x), Trunc(y)>> = cell

\* the wall heights the scan of a column samples
ScanHeights == { h \in 1 .. screen_height : h % 2 = 0 }

\* is the sample of wall height h on the ray of view angle theta a hit
SampleHits(theta, h) ==
  \E x \in {RayX(Pose, theta, Radius(h))} :
    \E y \in {RayY(Pose, theta, Radius(h))} :
      OutOfMap(x, y) \/ Occupied(x, y)

\* C5 as amended: the reported hit of a column is the first sampled point, in
\* increasing order of the radii screen_height / wall_height for wall_height =
\* screen_height, screen_height - 2, ..., 2, that is out of the map or in an
\* occupied cell: the sample at the reported radius is one, and no sample at
\* a smaller radius is.
C5_FirstSampledHit ==
  \A i \in 1 .. Len(slivers) :
    slivers[i].hit =>
      \A theta \in {ThetaOf(slivers[i])} :
        /\ slivers[i].wall_height \in ScanHeights
        /\ slivers[i].r = Radius(slivers[i].wall_height)
        /\ SampleHits(theta, slivers[i].wall_height)
        /\ \A h \in ScanHeights :
             h > slivers[i].wall_height => ~SampleHits(theta, h)

\* a column of a cast has hit an occupied cell inside the map after samples
\* that hit nothing
C5_Witness ==
  \E i \in 1 .. Len(slivers) :
    /\ slivers[i].hit
    /\ slivers[i].wall_height < screen_height
    /\ Occupied(RayX(Pose, ThetaOf(slivers[i]), slivers[i].r),
                RayY(Pose, ThetaOf(slivers[i]), slivers[i].r))

\* the scenario of spec section 8: all cells empty, player at (5.5, 5.5),
\* bearing 270, FOV 90, a screen of 4 columns, cast
Scenario ==
  /\ Len(slivers) = ScenarioSlivers
  /\ my_map = clear_map
  /\ Pose = InitPose

\* the distance from position p to the edge of the map along angle theta
EdgeDistance(p, theta) ==
  LET far == 2 * (MAP_X_DIM + MAP_Y_DIM) * One
      tx == IF Cos(theta) > 0
            THEN RoundDiv((MAP_X_DIM * One - p.x) * One, Cos(theta))
            ELSE IF Cos(theta) < 0 THEN RoundDiv(p.x * One, 0 - Cos(theta))
            ELSE far
      ty == IF Sin(theta) > 0
            THEN RoundDiv((MAP_Y_DIM * One - p.y) * One, Sin(theta))
            ELSE IF Sin(theta) < 0 THEN RoundDiv(p.y * One, 0 - Sin(theta))
            ELSE far
  IN  Min(tx, ty)

\* what two distances may differ by and count as equal
EdgeTolerance == One \div 64

\* C6 as claimed: in the scenario the radius reported for each of the 4
\* columns equals the distance from the player to the map edge along that
\* column's view angle.
C6_RadiusIsEdgeDistance ==
  Scenario =>
    \A i \in 1 .. ScenarioSlivers :
      /\ slivers[i].hit
      /\ Abs(slivers[i].r - EdgeDistance(Pose, ThetaOf(slivers[i]))) <= EdgeTolerance

\* C6 as amended: in the scenario every column's ray leaves the map and the
\* radius reported is the smallest sampled radius screen_height / wall_height
\* that is not less than the distance to the map edge: wall heights 8, 10,
\* 10, 10, that is radii 8, 6.4, 6.4, 6.4 for edge distances 7.78, 5.95,
\* 5.5, 5.95.
C6_RadiusIsFirstSampleBeyondEdge ==
  Scenario =>
    /\ [i \in 1 .. ScenarioSlivers |-> slivers[i].wall_height] = <<8, 10, 10, 10>>
    /\ \A i \in 1 .. ScenarioSlivers :
         \A edge \in {EdgeDistance(Pose, ThetaOf(slivers[i]))} :
           /\ slivers[i].hit
           /\ slivers[i].r = FDivInt(screen_height, slivers[i].wall_height)
           /\ slivers[i].r >= edge - EdgeTolerance
           /\ FDivInt(screen_height, slivers[i].wall_height + 2) < edge
           /\ OutOfMap(RayX(Pose, ThetaOf(slivers[i]), slivers[i].r),
                       RayY(Pose, ThetaOf(slivers[i]), slivers[i].r))

\* the scenario has been cast
C6_Witness == Scenario /\ \A i \in 1 .. ScenarioSlivers : slivers[i].hit

StrafeOps == {"strafe_left", "strafe_right"}

\* the pose the manual composition turn, step, turn back gives from pose p
ManualStrafe(op, p, m, distance, ub) ==
  IF op = "strafe_left"
  THEN turn_right(step_forward(turn_left(p, Deg90), m, distance, ub).pose, Deg90)
  ELSE turn_left(step_forward(turn_right(p, Deg90), m, distance, ub).pose, Deg90)

\* the position at distance d from p at a right angle to the bearing, to the
\* left for strafe_left and to the right for strafe_right
Sideways(op, p, d) ==
  IF op = "strafe_left"
  THEN [x |-> FAdd(p.x, FMulTrig(d, Sin(p.bearing))),
        y |-> FAdd(p.y, FMulTrig(d, 0 - Cos(p.bearing)))]
  ELSE [x |-> FAdd(p.x, FMulTrig(d, 0 - Sin(p.bearing))),
        y |-> FAdd(p.y, FMulTrig(d, Cos(p.bearing)))]

C8_RoundTripExact ==
  (trip.active /\ last.op = "step_backward") =>
    /\ player_x = trip.origin.x
    /\ player_y = trip.origin.y
    /\ player_bearing = trip.origin.bearing

\* do coordinates a and b differ by at most one unit in the last place of the
\* floats around a, b or the coordinate between passed through
WithinUlp(a, b, between) ==
  Abs(a - b) <= Max(Ulp(Abs(a)), Max(Ulp(Abs(b)), Ulp(Abs(between))))

\* C8 as amended: an accepted step_forward(d) directly followed by an
\* accepted step_backward(d) returns the player to within floating-point
\* tolerance of the original position (one unit in the last place of each
\* coordinate), not always to it exactly, and leaves the bearing unchanged.
C8_RoundTripWithinTolerance ==
  (trip.active /\ last.op = "step_backward" /\ last.accepted) =>
    /\ WithinUlp(player_x, trip.origin.x, last.before.x)
    /\ WithinUlp(player_y, trip.origin.y, last.before.y)
    /\ player_bearing = trip.origin.bearing

\* a step forward and back has ended one unit in the last place from where
\* it began
C8_Witness ==
  /\ trip.active
  /\ last.op = "step_backward"
  /\ last.accepted
  /\ <<player_x, player_y>> # <<trip.origin.x, trip.origin.y>>
  /\ <<player_x, player_y>> # <<last.before.x, last.before.y>>

TurnOps == {"turn_left", "turn_right"}

\* this step of the behaviour is a call of turn_left or turn_right
TurnCall == calls' = calls + 1 /\ last'.op \in TurnOps

\* C9 as claimed: turn_left(s) and turn_right(s) always succeed and change
\* the bearing by exactly -s and +s, with no normalization or clamping, and
\* leave the position and the map unchanged; so a turn directly followed by
\* the opposite turn of the same size restores the bearing.
C9_TurnAddsExactly ==
  /\ [][ TurnCall =>
           /\ last'.accepted
           /\ player_bearing' =
                IF last'.op = "turn_left" THEN player_bearing - last'.arg
                ELSE player_bearing + last'.arg
           /\ player_x' = player_x
           /\ player_y' = player_y
           /\ my_map' = my_map ]_vars
  /\ [] ( (trip.active /\ last.op \in TurnOps) => Pose = trip.origin )

\* C9 as amended: turn_left(s) and turn_right(s) always succeed, leave the
\* position and the map unchanged, and set the bearing to the float nearest
\* to bearing - s and bearing + s, with no normalization or clamping: the
\* change is exactly -s or +s when that sum is a float, and off by at most
\* half a unit in the last place otherwise; a turn directly followed by the
\* opposite turn of the same size restores the bearing to within one unit
\* in the last place.
C9_TurnAddsRounded ==
  /\ [][ TurnCall =>
           LET sum == IF last'.op = "turn_left" THEN player_bearing - last'.arg
                      ELSE player_bearing + last'.arg
           IN  /\ last'.accepted
               /\ Fl(sum) = sum => player_bearing' = sum
               /\ 2 * Abs(player_bearing' - sum) <= Ulp(Abs(sum))
               /\ player_x' = player_x
               /\ player_y' = player_y
               /\ my_map' = my_map ]_vars
  /\ [] ( (trip.active /\ last.op \in TurnOps) =>
            /\ player_x = trip.origin.x
            /\ player_y = trip.origin.y
            /\ WithinUlp(player_bearing, trip.origin.bearing, last.before.bearing) )

\* a turn of player_turn_speed has left the bearing where it was, far out of
\* [0, 360), and the opposite turn has then moved it
C9_Witness ==
  /\ trip.active
  /\ last.op \in TurnOps
  /\ last.before.bearing = trip.origin.bearing
  /\ last.before.bearing \notin 0 .. FullTurn - 1
  /\ player_bearing # trip.origin.bearing

\* the display operations of one iteration of loop(), in order
FrameOrder ==
  << "clear", "ray_cast", "draw_map", "display_frame_number", "display" >>

\* the places of loop() after display.display()
AfterDisplay ==
  { "pin_forward", "pin_backward", "pin_left", "pin_right", "pin_strafe_left",
    "pin_strafe_right", "frame_number" }

\* C10: in every iteration of loop() the display operations occur once each
\* in the order clear, ray_cast, draw_map, display_frame_number, display:
\* what has been done of an iteration is always a prefix of that order, and
\* all of it has been done when the frame is presented.
C10_FrameOrder ==
  /\ Len(frame_ops) <= Len(FrameOrder)
  /\ \A i \in 1 .. Len(frame_ops) : frame_ops[i] = FrameOrder[i]
  /\ pc \in AfterDisplay => frame_ops = FrameOrder
  /\ (frame_ops # << >> /\ frame_ops[Len(frame_ops)] = "display")
       => frame_ops = FrameOrder

\* the second iteration of loop() has presented its frame
C10_Witness ==
  /\ frame_number = 1
  /\ pc \in AfterDisplay
  /\ frame_ops = FrameOrder

\* ------------------------------------------------------- the frame loop
\* the places of loop() where the frame is being drawn, before any button
\* of the iteration is read
Rendering == { "ray_cast", "draw_map", "display_frame_number", "display" }

\* C11 as claimed: the buttons are polled and the player moved before the
\* ray cast and the presentation of the same iteration of loop(), so the
\* frame presented in an iteration shows the pose left by that iteration's
\* polls.
C11_FrameShowsPolledPose ==
  /\ pc = "frame_number" => tick.cast = Pose
  /\ "ray_cast" \in { frame_ops[i] : i \in 1 .. Len(frame_ops) }
       => tick.pressed = << >>

\* C11 as amended: in every iteration of loop() the ray cast, the drawing
\* and the presentation come first and the buttons are polled after them:
\* the frame is cast from the pose the iteration starts with, which is the
\* pose left by the polls of the iteration before, and a button read as
\* pressed moves the player only after the frame has been presented.
C11_FrameShowsPoseBeforePolls ==
  /\ pc \in Rendering => Pose = tick.start
  /\ "ray_cast" \in { frame_ops[i] : i \in 1 .. Len(frame_ops) }
       => tick.cast = tick.start
  /\ tick.pressed # << >> => frame_ops = FrameOrder

\* a frame has been presented and a button polled after it has moved the
\* player away from the pose the frame shows
C11_Witness ==
  /\ pc = "frame_number"
  /\ frame_ops = FrameOrder
  /\ tick.pressed # << >>
  /\ tick.cast # Pose

\* the places of the polls of loop(), in the order of the scan
ScanOrder ==
  << "pin_forward", "pin_backward", "pin_left", "pin_right", "pin_strafe_left",
     "pin_strafe_right" >>

\* the pose after the operation of the control polled at place pin, from
\* pose p on map m
Control(pin, p, m) ==
  CASE pin = "pin_forward" -> step_forward(p, m, player_walk_speed, 0).pose
    [] pin = "pin_backward" -> step_backward(p, m, player_walk_speed, 0).pose
    [] pin = "pin_left" -> turn_left(p, player_turn_speed)
    [] pin = "pin_right" -> turn_right(p, player_turn_speed)
    [] pin = "pin_strafe_left" -> strafe_left(p, m, player_walk_speed, 0).pose
    [] pin = "pin_strafe_right" -> strafe_right(p, m, player_walk_speed, 0).pose

RECURSIVE ApplyControls(_, _, _, _)
\* the pose after the operations of the controls in pressed, from the i-th
\* of the scan order on, each applied to the pose the one before it left
ApplyControls(p, m, pressed, i) ==
  IF i > Len(ScanOrder) THEN p
  ELSE CHOOSE q \in
         { ApplyControls(IF ScanOrder[i] \in pressed
                         THEN Control(ScanOrder[i], before, m) ELSE before,
                         m, pressed, i + 1) : before \in {p} } : TRUE

\* the controls read as pressed so far in this iteration of loop()
Pressed == { tick.pressed[i] : i \in 1 .. Len(tick.pressed) }

\* C12: the operations of all the controls pressed in an iteration of loop()
\* are applied in that iteration, in the scan order forward, backward, turn
\* left, turn right, strafe left, strafe right, each to the pose the one
\* before it left: the pose at the end of the iteration is the function
\* ApplyControls of the pose at its start, the map and the set of pressed
\* controls, whatever an out-of-range read of the map returned.
C12_PressedControlsInScanOrder ==
  /\ \A i, j \in 1 .. Len(tick.pressed) :
       i < j => \E a, b \in 1 .. Len(ScanOrder) :
                  a < b /\ ScanOrder[a] = tick.pressed[i] /\ ScanOrder[b] = tick.pressed[j]
  /\ pc = "frame_number" => Pose = ApplyControls(tick.start, my_map, Pressed, 1)

\* backward and a turn and a strafe were pressed in one iteration: the
\* strafe was made along the turned bearing
C12_Witness ==
  /\ pc = "frame_number"
  /\ Pressed = { "pin_backward", "pin_left", "pin_strafe_right" }
  /\ player_bearing # tick.start.bearing
  /\ player_x # tick.start.x
  /\ player_y # tick.start.y

\* C13: a strafe is atomic for the renderer: when the call before a frame
\* was strafe_left or strafe_right, the frame is cast and drawn from the
\* pose the whole strafe left, whose bearing is the bearing before the
\* strafe and not that bearing turned by 90 degrees, and no display
\* operation runs while a strafe is under way.
C13_NoFrameFromRotatedPose ==
  (pc \in Rendering /\ last.op \in StrafeOps) =>
    /\ Pose.bearing = last.before.bearing
    /\ "ray_cast" \in { frame_ops[i] : i \in 1 .. Len(frame_ops) } =>
         /\ tick.cast.bearing = last.before.bearing
         /\ tick.cast = Pose

\* a frame has been cast right after an accepted strafe
C13_Witness ==
  /\ pc = "display"
  /\ last.op \in StrafeOps
  /\ last.accepted
  /\ tick.cast.bearing = last.before.bearing
  /\ <<tick.cast.x, tick.cast.y>> # <<last.before.x, last.before.y>>

\* C14: once setup() has generated the map, no operation of loop() changes
\* a cell of my_map.
C14_MapUnchangedAfterSetup == [][ pc # "setup" => my_map' = my_map ]_vars

\* on a map with walls, a frame has been rendered after an accepted step, a
\* rejected step and a strafe
C14_Witness ==
  /\ frame_number >= 1
  /\ pc = "display"
  /\ \E c \in Cells : my_map[c] # 0
  /\ calls >= 2
  /\ Pose # InitPose

\* C15: if display.begin fails, setup() never returns: the sketch stays
\* halted for ever, with the map never generated, no pin configured, loop()
\* never run and no frame cast or presented.
C15_InitFailureHalts ==
  /\ [] ( pc = "halt" =>
            /\ my_map = clear_map
            /\ pin_modes = {}
            /\ frame_number = 0
            /\ frame_ops = << >>
            /\ slivers = << >>
            /\ tick = NoTick
            /\ calls = 0
            /\ Pose = InitPose )
  /\ [][ pc # "halt" ]_vars

\* display.begin has failed
C15_Witness == pc = "halt"


C18_SampledHeights ==
  \A i \in 1 .. Len(slivers) :
    \A samples \in {slivers[i].samples} :
      /\ Len(samples) <= screen_height \div 2
      /\ \A j \in 1 .. Len(samples) :
           /\ samples[j][1] = screen_height - 2 * (j - 1)
           /\ samples[j][1] > 0
      /\ \A j, l \in 1 .. Len(samples) : j # l => samples[j][1] # samples[l][1]

\* a column has been scanned through more than twenty wall heights
C18_Witness ==
  \E i \in 1 .. Len(slivers) :
    /\ Len(slivers[i].samples) > 20
    /\ slivers[i].wall_height = slivers[i].samples[Len(slivers[i].samples)][1]

\* C19: within the scan of a column the radius never decreases from one
\* sample to the next, as the wall height decreases: the points are
\* examined from the nearest to the farthest.
C19_RadiusNeverDecreases ==
  \A i \in 1 .. Len(slivers) :
    \A samples \in {slivers[i].samples} :
      \A j \in 1 .. Len(samples) - 1 :
        /\ samples[j][1] > samples[j + 1][1]
        /\ samples[j][2] <= samples[j + 1][2]

\* a column has taken samples at growing radii, the last beyond the map's
\* width
C19_Witness ==
  \E i \in 1 .. Len(slivers) :
    \E samples \in {slivers[i].samples} :
      /\ Len(samples) >= 3
      /\ samples[1][2] < samples[2][2]
      /\ samples[Len(samples)][2] > (MAP_X_DIM * One) \div 2

\* C20: every pixel render_sliver writes for a column of a cast has
\* coordinates in [0, screen_width) x [0, screen_height), and the rows it
\* writes are exactly those from screen_mid - half to screen_mid + half.
C20_PixelsInBounds ==
  \A i \in 1 .. Len(slivers) :
    slivers[i].hit =>
      \A pixels \in {render_sliver(slivers[i].sliver, slivers[i].wall_height)} :
        /\ \A px \in pixels :
             /\ px[1] \in 0 .. screen_width - 1
             /\ px[2] \in 0 .. screen_height - 1
        /\ { px[2] : px \in pixels } =
             (screen_height - slivers[i].wall_height) \div 2
               .. (screen_height + slivers[i].wall_height) \div 2
\* has draw_map() run in the current frame
MapDrawn == \E i \in 1 .. Len(frame_ops) : frame_ops[i] = "draw_map"

\* C21: every pixel draw_map writes (the map blocks, the player's pixel and
\* the line of sight) has coordinates in [0, screen_width) x
\* [0, screen_height), for every position and bearing the player reaches.
C21_MapPixelsInBounds ==
  MapDrawn =>
    \A px \in draw_map(Pose, my_map) :
      /\ px[1] \in 0 .. screen_width - 1
      /\ px[2] \in 0 .. screen_height - 1
\* C22: for every wall_height ray_cast passes to render_sliver, every column
\* and every row of the fill loop, the read wall_textures[wi][wx][wy] is in
\* range: wi is floor(wall_height / screen_height * NUM_WALL_TEXTURES)
\* lowered to NUM_WALL_TEXTURES - 1, within 0 .. NUM_WALL_TEXTURES - 1, wx is
\* the column mod WALL_TEXTURE_X_DIM and wy the row mod WALL_TEXTURE_Y_DIM.
C22_TextureReadsInRange ==
  \A i \in 1 .. Len(slivers) :
    slivers[i].hit =>
      \A h \in {slivers[i].wall_height} :
        /\ \A t \in texture_reads(slivers[i].sliver, h) :
             /\ t.wi \in 0 .. NUM_WALL_TEXTURES - 1
             /\ t.wi = Min((h * NUM_WALL_TEXTURES) \div screen_height,
                           NUM_WALL_TEXTURES - 1)
             /\ t.wx \in 0 .. WALL_TEXTURE_X_DIM - 1
             /\ t.wy \in 0 .. WALL_TEXTURE_Y_DIM - 1
        /\ \A y \in fill_rows(h) :
             \A t \in {texture_index(slivers[i].sliver, y, h)} :
               /\ t.wx = slivers[i].sliver % WALL_TEXTURE_X_DIM
               /\ t.wy = y % WALL_TEXTURE_Y_DIM

\* a cast of the whole screen with a wall of the full screen height, whose
\* texture number is lowered, and a low wall, both textured
C22_Witness ==
  /\ Len(slivers) = NUM_SLIVERS
  /\ \E i \in 1 .. Len(slivers) :
       /\ slivers[i].hit
       /\ slivers[i].wall_height = screen_height
       /\ slivers[i].sliver >= WALL_TEXTURE_X_DIM
       /\ Cardinality(texture_reads(slivers[i].sliver, screen_height)) > 1
  /\ \E i \in 1 .. Len(slivers) :
       /\ slivers[i].hit
       /\ slivers[i].wall_height < screen_height \div 2
       /\ texture_reads(slivers[i].sliver, slivers[i].wall_height) # {}
\* the positions of loop() before ray_cast, draw_map and display_frame_number
RenderingPhase == {"ray_cast", "draw_map", "display_frame_number"}

\* the six movement operations
MovementOps ==
  {"step_forward", "step_backward", "turn_left", "turn_right", "strafe_left",
   "strafe_right"}

\* C23: ray_cast, draw_map and display_frame_number leave player_x, player_y
\* and player_bearing unchanged, the pose changes only in a call of one of
\* the six movement operations, and so draw_map reads (and the frame is
\* finished with) the pose the ray_cast of the same tick has read.
C23_RenderingKeepsPose ==
  [][/\ pc \in RenderingPhase => Pose' = Pose
     /\ Pose' # Pose => /\ last'.op \in MovementOps
                        /\ last'.before = Pose
                        /\ pc \in { ScanOrder[j] : j \in 1 .. Len(ScanOrder) }
     /\ pc' \in {"draw_map", "display_frame_number", "display"} =>
          tick'.cast = Pose']_vars

\* a frame is being rendered from a pose a movement of an earlier tick has
\* left: ray_cast and draw_map have both run
C23_Witness ==
  /\ pc = "display_frame_number"
  /\ frame_number > 0
  /\ Pose # InitPose
  /\ last.op \in MovementOps
  /\ Len(slivers) = NUM_SLIVERS
  /\ MapDrawn
  /\ tick.cast = Pose
\* the frames presented since the canvas was last cleared
Presented ==
  Cardinality({ i \in 1 .. Len(frame_ops) : frame_ops[i] = "display" })

EvenHeights == { 2 * h : h \in 1 .. screen_height \div 2 }

\* is radius r, in fixed units, greater than the diagonal of the map (the
\* radius is rounded down to 64ths of a map unit to keep the squares small)
BeyondDiagonal(r) ==
  (r \div (One \div 64)) * (r \div (One \div 64))
    > (MAP_X_DIM * MAP_X_DIM + MAP_Y_DIM * MAP_Y_DIM) * 64 * 64

\* C25: with the program's constants, for the player anywhere inside the map,
\* every bearing and every map, the scan of every column registers a hit
\* before wall_height reaches 0, with k = 1 and with the k = 0.5 of the older
\* ray_cast, because the farthest sampled radius is beyond the diagonal of
\* the map: render_sliver is called once for every column of a cast, with a
\* wall_height that is an even integer of [2, screen_height].
C25_EveryColumnHits ==
  /\ BeyondDiagonal(Radius(HeightDec))
  /\ BeyondDiagonal(Radius_older(HeightDec))
  /\ \A i \in 1 .. Len(slivers) :
       /\ slivers[i].sliver = i - 1
       /\ slivers[i].hit
       /\ slivers[i].wall_height \in EvenHeights
       /\ \A o \in {scan_column_older(Pose, my_map, slivers[i].theta, 0, i - 1)} :
            /\ o.hit
            /\ o.wall_height \in EvenHeights
            /\ o.bad_reads = 0

\* a cast of the whole screen with a column whose ray runs more than half the
\* farthest radius of the older ray_cast before it meets a wall or the edge:
\* that scan has its hit at its last sample
C25_Witness ==
  /\ Len(slivers) = NUM_SLIVERS
  /\ \E i \in 1 .. Len(slivers) :
       /\ slivers[i].hit
       /\ slivers[i].wall_height < screen_height \div 4
       /\ \E o \in {scan_column_older(Pose, my_map, slivers[i].theta, 0, i - 1)} :
            /\ o.hit
            /\ o.wall_height = HeightDec
            /\ Len(o.samples) = screen_height \div HeightDec
\* the cells that hold a point of the straight segment from <<x0, y0>> to
\* <<x1, y1>>, two points less than a cell apart: the cells of the two ends
\* and, when the segment crosses a line of the grid in x and one in y, the
\* cell it is in between the two crossings (or the cell of the corner, when
\* it crosses both at once)
SegmentCells(x0, y0, x1, y1) ==
  LET ix0 == Trunc(x0)
      iy0 == Trunc(y0)
      ix1 == Trunc(x1)
      iy1 == Trunc(y1)
      gx == Max(ix0, ix1) * One
      gy == Max(iy0, iy1) * One
      tx == Abs(gx - x0) * Abs(y1 - y0)
      ty == Abs(gy - y0) * Abs(x1 - x0)
  IN  { <<ix0, iy0>>, <<ix1, iy1>> }
      \cup IF ix0 # ix1 /\ iy0 # iy1
           THEN { IF tx < ty THEN <<ix1, iy0>>
                  ELSE IF tx > ty THEN <<ix0, iy1>>
                  ELSE <<Max(ix0, ix1), Max(iy0, iy1)>> }
           ELSE {}

\* C26: an accepted step_forward at the walk speed never carries the player
\* through a wall: every point of the straight segment from the old position
\* to the new one lies in an empty cell.
C26_StepStaysInEmptyCells ==
  ( /\ last.op = "step_forward"
    /\ last.arg = player_walk_speed
    /\ last.accepted )
  => \A c \in SegmentCells(last.before.x, last.before.y, player_x, player_y) :
       my_map[c] = 0
=============================================================================
